---- MODULE Spec2Model ----
(***************************************************************************)
(* Model of the three-agents backend: the ask endpoint (askQuestion), the  *)
(* workflow (executeAgentWorkflow = runParallelAgents then                 *)
(* runClaudeSynthesis), the two branch services (queryGemini,              *)
(* queryOpenAI), the synthesis service (synthesizeResponses with           *)
(* buildSynthesisPrompt and parseClaudeResponse) and the response          *)
(* formatters.                                                             *)
(*                                                                         *)
(* Strings on which the code computes (the question, Claude's reply) are   *)
(* sequences of tokens; a token is one character or one whole marker.      *)
(* Strings the code only tests for truthiness and copies (branch texts,    *)
(* error messages) are TLA+ strings.  A JavaScript object is a record      *)
(* whose DOMAIN is the set of its own properties, so an absent property    *)
(* reads as undefined.                                                     *)
(***************************************************************************)
EXTENDS Integers, Sequences, FiniteSets, TLC

\* ------------------------------------------------------------------ bounds
\* Date.now() advances up to MaxClock milliseconds during one behaviour.
MaxClock == 3

\* ------------------------------------------------------------ input sets
\* The HTTP requests in flight (one AgentState and one res object each).
Requests == {"r1", "r2"}

\* The two branches, in the order of the array handed to Promise.allSettled.
Branches == <<"gemini", "openai">>
BranchSet == {"gemini", "openai"}

\* Whitespace as String.prototype.trim and the regex class \s see it.
Whitespace == {" ", "\n"}

\* Values of req.body.question.
QuestionValues ==
    { [type |-> "undefined"],
      [type |-> "number", num |-> 0],
      [type |-> "number", num |-> 7],
      [type |-> "string", str |-> <<>>],
      [type |-> "string", str |-> <<" ", "\n">>],
      [type |-> "string", str |-> <<" ", "q", " ">>],
      [type |-> "string", str |-> <<"q", " ", "k">>] }

\* Texts a branch service can return; the empty text is a legal reply.
Texts == {"", "Paris", "Lyon"}

\* What the Gemini client's invoke settles with: an error, or a message whose
\* content is a string.
GeminiReplies ==
    {[ok |-> FALSE]} \cup {[ok |-> TRUE, content |-> t] : t \in Texts}

\* What the OpenAI client's invoke settles with: an error, or a message whose
\* content is an array of blocks (possibly empty).  Every block carries a
\* text, as the declared result type { response: string } requires.
OpenAIReplies ==
    {[ok |-> FALSE], [ok |-> TRUE, content |-> <<>>]}
        \cup {[ok |-> TRUE, content |-> <<[text |-> t]>>] : t \in Texts}

\* What the Claude client's invoke settles with: an error, or a reply text.
ClaudeTexts ==
    { <<"REASONING:", "\n", "r", "\n", "\n", "FINAL ANSWER:", "\n", "a">>,
      <<"a", " ", "b">>,
      <<"REASONING:", " ", "FINAL ANSWER:">> }
ClaudeReplies ==
    {[ok |-> FALSE]} \cup {[ok |-> TRUE, content |-> t] : t \in ClaudeTexts}

\* The longest reply handed to parseClaudeResponse on its own.
MaxReplyLen == 4

\* The tokens of such a reply: the two markers, whitespace, text.
ReplyTokens == {"REASONING:", "FINAL ANSWER:", " ", "a", "b"}

\* The replies of at most MaxReplyLen tokens.
Replies == UNION {[1..k -> ReplyTokens] : k \in 0..MaxReplyLen}

\* ------------------------------------------------------------- variables
VARIABLES
    now,          \* Date.now()
    pc,           \* per request: where askQuestion / the workflow stands
    question,     \* per request: the argument of executeAgentWorkflow
    promise,      \* per request and branch: the promise of queryGemini/queryOpenAI
    startTime,    \* per request and service: the callee's const startTime
    remote,       \* per request and service: what client.invoke settled with
    settledAt,    \* per request and service: Date.now() when its call settled
    settleOrder,  \* per request: the branches in the order they settled
    invocations,  \* per request and service: number of client.invoke calls
    heap,         \* the metadata objects, by address
    initialState,     \* per request: executeAgentWorkflow's initialState
    stateAfterAgents, \* per request: executeAgentWorkflow's stateAfterAgents
    finalState,       \* per request: executeAgentWorkflow's finalState
    prompt,       \* per request: the prompt handed to claudeClient.invoke
    returnedAt,   \* per request: Date.now() when runParallelAgents returned
    sent,         \* per request: the HTTP responses written to res
    reqBody,      \* per request: req.body.question as received
    asked,        \* per request and branch: the argument of queryGemini/queryOpenAI
    parseIn,      \* the argument of a call of parseClaudeResponse on its own
    parseOut,     \* the result of that call
    processEnv,   \* process.env when llm.config.ts is loaded
    envResult,    \* what validateEnv returned or threw
    questionInput, \* App: the state `question`, the text of the textarea
    messages,     \* App: the state `messages`
    loading,      \* App: the state `loading`
    fetches,      \* App: the handleSubmit calls suspended at their fetch, each
                  \* with its messageId and the position of its message
    submits       \* App: the number of calls of handleSubmit so far

\* The variables of the request workflow and those of the parser on its own.
workflowVars == <<now, pc, question, promise, startTime, remote, settledAt,
                  settleOrder, invocations, heap, initialState,
                  stateAfterAgents, finalState, prompt, returnedAt, sent, reqBody,
                  asked>>
parserVars == <<parseIn, parseOut>>
startupVars == <<processEnv, envResult>>
frontendVars == <<questionInput, messages, loading, fetches, submits>>

\* What a step of the request workflow leaves alone.
otherVars == <<parserVars, startupVars, frontendVars>>

vars == <<now, pc, question, promise, startTime, remote, settledAt, settleOrder,
          invocations, heap, initialState, stateAfterAgents, finalState,
          prompt, returnedAt, sent, reqBody, asked, parseIn, parseOut,
          processEnv, envResult, questionInput, messages, loading, fetches,
          submits>>

Services == {"gemini", "openai", "claude"}

\* Addresses of the metadata objects a request allocates: the literal of
\* executeAgentWorkflow and the literal of runClaudeSynthesis.
Addresses == Requests \X {"initial", "final"}

\* One module-level metadata object shared by every request.
SharedMetadataAddress(r, which) == <<"r1", which>>

\* The address of the metadata object request r allocates in
\* executeAgentWorkflow ("initial") or in runClaudeSynthesis ("final"): an
\* object literal evaluated per call is a fresh object.
MetadataAddress(r, which) == <<r, which>>

\* A value that stands for "not yet assigned".
None == [type |-> "none"]

\* The value of a time that has not been read yet.
NoTime == 0 - 1

\* ------------------------------------------------ JavaScript primitives
\* Truthiness of a string / of a number.
TruthyStr(s) == s /= ""
TruthyNum(n) == n /= 0

\* obj.f, with undefined read as the default d: (obj.f || d) for strings.
StrOr(obj, f, d) == IF f \in DOMAIN obj /\ TruthyStr(obj[f]) THEN obj[f] ELSE d
\* (obj.f || d) for numbers.
NumOr(obj, f, d) == IF f \in DOMAIN obj /\ TruthyNum(obj[f]) THEN obj[f] ELSE d
\* (obj.f || d) for token strings.
SeqOr(obj, f, d) == IF f \in DOMAIN obj /\ obj[f] /= <<>> THEN obj[f] ELSE d

\* obj.f = v on a copy of obj.
SetProp(obj, f, v) ==
    [x \in DOMAIN obj \cup {f} |-> IF x = f THEN v ELSE obj[x]]

\* String.prototype.trim on a token string.
RECURSIVE TrimStart(_)
TrimStart(s) ==
    IF s = <<>> THEN <<>>
    ELSE IF Head(s) \in Whitespace THEN TrimStart(Tail(s)) ELSE s

RECURSIVE TrimEnd(_)
TrimEnd(s) ==
    IF s = <<>> THEN <<>>
    ELSE IF s[Len(s)] \in Whitespace THEN TrimEnd(SubSeq(s, 1, Len(s) - 1))
    ELSE s

\* A trim that removes leading whitespace only.
trimStartOnly(s) ==
    IF \A i \in DOMAIN s : s[i] \in {" ", "\n"} THEN <<>>
    ELSE SubSeq(s, CHOOSE i \in DOMAIN s :
                      /\ s[i] \notin {" ", "\n"}
                      /\ \A j \in 1..(i - 1) : s[j] \in {" ", "\n"},
                Len(s))

trim(s) == TrimEnd(TrimStart(s))

\* new AgentError(message, agentName, originalError): an Error.
AgentError(message, agentName) ==
    [isError |-> TRUE, name |-> "AgentError", message |-> message,
     agentName |-> agentName, stack |-> <<"AgentError", message>>]

\* new Error(message).
NewError(message) ==
    [isError |-> TRUE, name |-> "Error", message |-> message,
     stack |-> <<"Error", message>>]

\* ------------------------------------------------------- branch services
\* A queryGemini whose catch block throws an AgentError without a message.
queryGeminiEmptyMessage(start, t, reply) ==
    IF reply.ok
    THEN [status |-> "fulfilled",
          value |-> [response |-> reply.content, time |-> t - start]]
    ELSE [status |-> "rejected", reason |-> AgentError("", "Gemini")]

\* The promise of queryGemini once geminiClient.invoke has settled with
\* `reply` at time t: the value {response, time}, or an AgentError.
queryGemini(start, t, reply) ==
    IF reply.ok
    THEN [status |-> "fulfilled",
          value |-> [response |-> reply.content, time |-> t - start]]
    ELSE [status |-> "rejected",
          reason |-> AgentError("Failed to get response from Gemini", "Gemini")]

\* The promise of queryOpenAI once openaiClient.invoke has settled: reading
\* content[0].text of an empty content throws inside the try block.
queryOpenAI(start, t, reply) ==
    IF reply.ok /\ Len(reply.content) > 0
    THEN [status |-> "fulfilled",
          value |-> [response |-> reply.content[1].text, time |-> t - start]]
    ELSE [status |-> "rejected",
          reason |-> AgentError("Failed to get response from OpenAI", "OpenAI")]

Pending == [status |-> "pending"]
IsSettled(p) == p.status \in {"fulfilled", "rejected"}

\* A settle-all whose per-branch timeout has already fired: it fulfils at
\* once, reporting every input still pending as rejected with a non-Error.
PromiseAllSettledNoWait(ps) ==
    [status |-> "fulfilled",
     value |-> [i \in DOMAIN ps |->
                  IF IsSettled(ps[i]) THEN ps[i]
                  ELSE [status |-> "rejected", reason |-> [isError |-> FALSE]]]]

\* Promise.all: rejects as soon as one input rejects.
PromiseAll(ps) ==
    IF \E i \in DOMAIN ps : ps[i].status = "rejected"
    THEN [status |-> "rejected",
          reason |-> ps[CHOOSE i \in DOMAIN ps : ps[i].status = "rejected"].reason]
    ELSE IF \A i \in DOMAIN ps : ps[i].status = "fulfilled"
    THEN [status |-> "fulfilled", value |-> ps]
    ELSE Pending

\* A partial settle-all: it stays pending for ever once an input rejected.
PromiseAllSettledPartial(ps) ==
    IF \A i \in DOMAIN ps : ps[i].status = "fulfilled"
    THEN [status |-> "fulfilled", value |-> ps]
    ELSE Pending

\* Promise.allSettled: fulfilled, with the results in input order, once every
\* input has settled; it never rejects.
PromiseAllSettled(ps) ==
    IF \A i \in DOMAIN ps : IsSettled(ps[i])
    THEN [status |-> "fulfilled", value |-> ps]
    ELSE Pending

\* reason instanceof Error ? reason.message : 'Unknown error'
ErrorMessageOf(reason) ==
    IF reason.isError THEN reason.message ELSE "Unknown error"

\* runParallelAgents after its await: the state it returns and the heap it
\* leaves.  updatedState is a shallow copy, so its metadata is the caller's
\* metadata object.
ProcessResults(state, geminiResult, openaiResult, h) ==
    LET m == state.metadata
        s1 == IF geminiResult.status = "fulfilled"
              THEN SetProp(state, "geminiResponse", geminiResult.value.response)
              ELSE SetProp(state, "geminiError", ErrorMessageOf(geminiResult.reason))
        h1 == IF geminiResult.status = "fulfilled"
              THEN [h EXCEPT ![m] = SetProp(@, "geminiTime", geminiResult.value.time)]
              ELSE h
        s2 == IF openaiResult.status = "fulfilled"
              THEN SetProp(s1, "openaiResponse", openaiResult.value.response)
              ELSE SetProp(s1, "openaiError", ErrorMessageOf(openaiResult.reason))
        h2 == IF openaiResult.status = "fulfilled"
              THEN [h1 EXCEPT ![m] = SetProp(@, "openaiTime", openaiResult.value.time)]
              ELSE h1
    IN  [state |-> s2, heap |-> h2]

\* const [openaiResult, geminiResult] = ...: the destructuring swapped.
runParallelAgentsSwapped(state, results, h) ==
    ProcessResults(state, results[2], results[1], h)

\* const [geminiResult, openaiResult] = await Promise.allSettled([...]).
runParallelAgents(state, results, h) ==
    ProcessResults(state, results[1], results[2], h)

\* ----------------------------------------------------- synthesis service
\* The section without its else-if: a failed branch leaves no trace.
PromptSectionNoError(input, agent, responseKey, errorKey) ==
    IF responseKey \in DOMAIN input /\ TruthyStr(input[responseKey])
    THEN <<[kind |-> "response", agent |-> agent, text |-> input[responseKey]]>>
    ELSE <<>>

\* The section buildSynthesisPrompt appends for one branch: the text when it
\* is truthy, else the [ERROR] line when the error is truthy, else nothing.
PromptSection(input, agent, responseKey, errorKey) ==
    IF responseKey \in DOMAIN input /\ TruthyStr(input[responseKey])
    THEN <<[kind |-> "response", agent |-> agent, text |-> input[responseKey]]>>
    ELSE IF errorKey \in DOMAIN input /\ TruthyStr(input[errorKey])
    THEN <<[kind |-> "error", agent |-> agent, message |-> input[errorKey]]>>
    ELSE <<>>

\* The prompt as the sequence of its parts: the preamble with the question,
\* Gemini's section, OpenAI's section, the task description.
buildSynthesisPrompt(input) ==
    <<[kind |-> "question", text |-> input.question]>>
        \o PromptSection(input, "Gemini", "geminiResponse", "geminiError")
        \o PromptSection(input, "OpenAI", "openaiResponse", "openaiError")
        \o <<[kind |-> "task"]>>

\* The SynthesisInput literal of runClaudeSynthesis: the five properties of
\* the state, those that are undefined left out.
SynthesisInput(state) ==
    [f \in DOMAIN state \cap {"question", "geminiResponse", "geminiError",
                              "openaiResponse", "openaiError"} |-> state[f]]

\* Index of the first occurrence of token tok in s at or after from, or 0.
IndexOf(s, tok, from) ==
    IF \E i \in from..Len(s) : s[i] = tok
    THEN CHOOSE i \in from..Len(s) :
             s[i] = tok /\ \A j \in from..(i - 1) : s[j] /= tok
    ELSE 0

\* Index of the first non-whitespace token of s at or after from, or Len(s)+1.
SkipWs(s, from) ==
    IF \E i \in from..Len(s) : s[i] \notin Whitespace
    THEN CHOOSE i \in from..Len(s) :
             s[i] \notin Whitespace /\ \A j \in from..(i - 1) : s[j] \in Whitespace
    ELSE Len(s) + 1

\* The reasoning pattern with a greedy group: it captures to the end.
ReasoningMatchGreedy(response) ==
    LET m == IndexOf(response, "REASONING:", 1)
        b == SkipWs(response, m + 1)
    IN  IF m = 0 THEN None
        ELSE [type |-> "match", group |-> SubSeq(response, b, Len(response))]

\* response.match(/REASONING:\s*([\s\S]*?)(?=FINAL ANSWER:|$)/i): the capture
\* group, or None when there is no match.
ReasoningMatch(response) ==
    LET m == IndexOf(response, "REASONING:", 1)
        b == SkipWs(response, m + 1)
        f == IndexOf(response, "FINAL ANSWER:", b)
    IN  IF m = 0 THEN None
        ELSE [type |-> "match",
              group |-> SubSeq(response, b, IF f = 0 THEN Len(response) ELSE f - 1)]

\* response.match(/FINAL ANSWER:\s*([\s\S]*?)$/i).
FinalAnswerMatch(response) ==
    LET m == IndexOf(response, "FINAL ANSWER:", 1)
        b == SkipWs(response, m + 1)
    IN  IF m = 0 THEN None
        ELSE [type |-> "match", group |-> SubSeq(response, b, Len(response))]

NoReasoningProvided == <<"No reasoning provided">>

\* match?.[1]?.trim() ?? fallback: an empty group does not fall back.
MatchOrNullish(match, fallback) ==
    IF match /= None THEN trim(match.group) ELSE fallback

\* match?.[1]?.trim() || fallback
MatchOr(match, fallback) ==
    IF match /= None /\ trim(match.group) /= <<>> THEN trim(match.group)
    ELSE fallback

parseClaudeResponse(response) ==
    [reasoning |-> MatchOr(ReasoningMatch(response), NoReasoningProvided),
     finalAnswer |-> MatchOr(FinalAnswerMatch(response), trim(response))]

\* synthesizeResponses with a catch block that returns an empty synthesis
\* instead of throwing.
synthesizeResponsesSwallow(start, t, reply) ==
    IF reply.ok
    THEN [status |-> "fulfilled",
          value |-> [finalAnswer |-> parseClaudeResponse(reply.content).finalAnswer,
                     reasoning |-> parseClaudeResponse(reply.content).reasoning,
                     time |-> t - start]]
    ELSE [status |-> "fulfilled",
          value |-> [finalAnswer |-> <<>>, reasoning |-> <<>>, time |-> t - start]]

\* The promise of synthesizeResponses once claudeClient.invoke has settled.
synthesizeResponses(start, t, reply) ==
    IF reply.ok
    THEN [status |-> "fulfilled",
          value |-> [finalAnswer |-> parseClaudeResponse(reply.content).finalAnswer,
                     reasoning |-> parseClaudeResponse(reply.content).reasoning,
                     time |-> t - start]]
    ELSE [status |-> "rejected",
          reason |-> AgentError("Failed to synthesize responses with Claude", "Claude")]

\* The total as wall-clock latency: the slower branch plus the synthesis.
TotalTimeWallClock(metadata, time) ==
    (IF NumOr(metadata, "geminiTime", 0) >= NumOr(metadata, "openaiTime", 0)
     THEN NumOr(metadata, "geminiTime", 0)
     ELSE NumOr(metadata, "openaiTime", 0)) + time

\* The total without the OpenAI term.
TotalTimeOmitsOpenAI(metadata, time) ==
    NumOr(metadata, "geminiTime", 0) + time

\* totalTime of runClaudeSynthesis.
TotalTime(metadata, time) ==
    NumOr(metadata, "geminiTime", 0) + NumOr(metadata, "openaiTime", 0) + time

\* A runClaudeSynthesis whose new metadata is not spread from the old one:
\* it holds claudeTime and totalTime only.
runClaudeSynthesisFreshMetadata(state, out, a, h) ==
    [state |-> SetProp(SetProp(SetProp(state, "finalAnswer", out.finalAnswer),
                               "reasoning", out.reasoning),
                       "metadata", a),
     heap |-> [h EXCEPT ![a] =
                  [claudeTime |-> out.time,
                   totalTime |-> TotalTime(h[state.metadata], out.time)]]]

\* runClaudeSynthesis after its await: the returned state, whose metadata is
\* a new object at address a, and the heap with that object.
runClaudeSynthesis(state, out, a, h) ==
    [state |-> SetProp(SetProp(SetProp(state, "finalAnswer", out.finalAnswer),
                               "reasoning", out.reasoning),
                       "metadata", a),
     heap |-> [h EXCEPT ![a] =
                  SetProp(SetProp(h[state.metadata], "claudeTime", out.time),
                          "totalTime", TotalTime(h[state.metadata], out.time))]]

\* ---------------------------------------------------------- response model
\* An AgentResponse that never carries the error.
AgentResponseNoError(state, metadata, responseKey, errorKey, timeKey) ==
    [response |-> StrOr(state, responseKey, ""),
     processingTime |-> NumOr(metadata, timeKey, 0)]

\* An AgentResponse whose error is spread in whenever the response is falsy.
AgentResponseErrorIfEmpty(state, metadata, responseKey, errorKey, timeKey) ==
    LET base == [response |-> StrOr(state, responseKey, ""),
                 processingTime |-> NumOr(metadata, timeKey, 0)]
    IN  IF StrOr(state, responseKey, "") = ""
        THEN SetProp(base, "error", StrOr(state, errorKey, "Unknown error"))
        ELSE base

\* One AgentResponse of formatSuccessResponse.
AgentResponse(state, metadata, responseKey, errorKey, timeKey) ==
    LET base == [response |-> StrOr(state, responseKey, ""),
                 processingTime |-> NumOr(metadata, timeKey, 0)]
    IN  IF errorKey \in DOMAIN state /\ TruthyStr(state[errorKey])
        THEN SetProp(base, "error", state[errorKey])
        ELSE base

formatSuccessResponse(state, h) ==
    LET metadata == h[state.metadata] IN
    [success |-> TRUE,
     data |-> [question |-> state.question,
               agents |-> [gemini |-> AgentResponse(state, metadata,
                                         "geminiResponse", "geminiError", "geminiTime"),
                           openai |-> AgentResponse(state, metadata,
                                         "openaiResponse", "openaiError", "openaiTime"),
                           claude |-> [finalAnswer |-> SeqOr(state, "finalAnswer", <<>>),
                                       reasoning |-> SeqOr(state, "reasoning", <<>>),
                                       processingTime |-> NumOr(metadata, "claudeTime", 0)]],
               totalProcessingTime |-> metadata.totalTime]]

\* JSON.stringify drops details when it is undefined.
formatErrorResponse(error) ==
    IF error.isError
    THEN [success |-> FALSE, error |-> error.message, details |-> error.stack]
    ELSE [success |-> FALSE, error |-> "An unknown error occurred"]

\* A catch block that throws a new error in place of the one it caught.
executeAgentWorkflowCatchWrapped(error) == NewError("Agent workflow failed")

\* The catch block of executeAgentWorkflow: it logs and rethrows the error
\* it caught.
executeAgentWorkflowCatch(error) == error

\* ---------------------------------------------------------------- startup
\* The environment variables llm.config.ts reads and the strings each can
\* hold; an unset variable is absent from process.env.
KeyNames == {"GEMINI_API_KEY", "OPENAI_API_KEY", "ANTHROPIC_API_KEY"}
ModelNames == {"GEMINI_MODEL", "OPENAI_MODEL", "CLAUDE_MODEL"}
EnvNames == {"PORT"} \cup KeyNames \cup ModelNames
EnvStrings(name) ==
    IF name = "PORT" THEN {"", "8080"}
    ELSE IF name \in KeyNames THEN {"", "key"}
    ELSE {"", "model"}

\* The environments with which the server can be started.
Environments ==
    UNION { {e \in [D -> {"", "8080", "key", "model"}] :
                \A name \in D : e[name] \in EnvStrings(name)} :
            D \in SUBSET EnvNames }

\* parseInt(s, 10) on the port strings in use.
parseInt(s) == IF s = "8080" THEN 8080 ELSE 3000

\* The list validateEnv checks.
requiredEnvVars == <<"GEMINI_API_KEY", "OPENAI_API_KEY">>

\* !process.env[varName]
IsMissing(env, varName) == ~(varName \in DOMAIN env /\ TruthyStr(env[varName]))

\* validateEnv: it throws an Error naming the missing variables of
\* requiredEnvVars, or returns the EnvConfig; a key read from an unset
\* variable is undefined, that is absent from the object.
validateEnv(env) ==
    LET missing == SelectSeq(requiredEnvVars, LAMBDA v : IsMissing(env, v))
        keys == [k \in KeyNames \cap DOMAIN env |-> env[k]]
        defaults == [PORT |-> parseInt(StrOr(env, "PORT", "3000")),
                     GEMINI_MODEL |-> StrOr(env, "GEMINI_MODEL", "gemini-2.5-flash"),
                     OPENAI_MODEL |-> StrOr(env, "OPENAI_MODEL", "gpt-5-mini"),
                     CLAUDE_MODEL |-> StrOr(env, "CLAUDE_MODEL",
                                            "claude-sonnet-4-5-20250929")]
    IN  IF Len(missing) > 0
        THEN [threw |-> TRUE,
              error |-> NewError(<<"Missing required environment variables: ">>
                                     \o missing)]
        ELSE [threw |-> FALSE,
              value |-> [f \in DOMAIN keys \cup DOMAIN defaults |->
                            IF f \in DOMAIN keys THEN keys[f] ELSE defaults[f]]]

\* ------------------------------------------------------------------ state
\* The state in which the requests of `clients` are about to arrive.
InitWith(clients) ==
    /\ now = 0
    /\ pc = [r \in Requests |-> IF r \in clients THEN "idle" ELSE "absent"]
    /\ question = [r \in Requests |-> <<>>]
    /\ promise = [r \in Requests |-> [s \in Services |-> [status |-> "none"]]]
    /\ startTime = [r \in Requests |-> [s \in Services |-> NoTime]]
    /\ remote = [r \in Requests |-> [s \in Services |-> None]]
    /\ settledAt = [r \in Requests |-> [s \in Services |-> NoTime]]
    /\ settleOrder = [r \in Requests |-> <<>>]
    /\ invocations = [r \in Requests |-> [s \in Services |-> 0]]
    /\ heap = [a \in Addresses |-> None]
    /\ initialState = [r \in Requests |-> None]
    /\ stateAfterAgents = [r \in Requests |-> None]
    /\ finalState = [r \in Requests |-> None]
    /\ prompt = [r \in Requests |-> <<>>]
    /\ returnedAt = [r \in Requests |-> NoTime]
    /\ sent = [r \in Requests |-> <<>>]
    /\ reqBody = [r \in Requests |-> None]
    /\ asked = [r \in Requests |-> [b \in BranchSet |-> <<>>]]

\* The parser is not called on its own.
ParserIdle ==
    /\ parseIn = <<>>
    /\ parseOut = None

\* The configuration module was loaded with every variable set.
StartupDone ==
    /\ processEnv = [name \in KeyNames |-> "key"]
    /\ envResult = validateEnv(processEnv)

\* No page is open.
FrontendIdle ==
    /\ questionInput = <<>>
    /\ messages = <<>>
    /\ loading = FALSE
    /\ fetches = {}
    /\ submits = 0

\* One request.
Init ==
    /\ InitWith({"r1"})
    /\ ParserIdle
    /\ StartupDone
    /\ FrontendIdle

\* --------------------------------------------------------------- actions
\* Date.now() advances.
Tick ==
    /\ now < MaxClock
    /\ now' = now + 1
    /\ UNCHANGED <<pc, question, promise, startTime, remote, settledAt, settleOrder,
                   invocations, heap, initialState, stateAfterAgents,
                   finalState, prompt, returnedAt, sent, reqBody>>
    /\ UNCHANGED <<asked, otherVars>>

\* The validation without its trim test: a blank string passes.
IsInvalidQuestionNoTrim(q) ==
    \/ q.type = "undefined"
    \/ q.type = "number"
    \/ q.type = "string" /\ q.str = <<>>

\* !question || typeof question !== 'string' || question.trim() === ''
IsInvalidQuestion(q) ==
    \/ q.type = "undefined"
    \/ q.type = "number"
    \/ q.type = "string" /\ q.str = <<>>
    \/ q.type = "string" /\ trim(q.str) = <<>>

\* res.status(code).json(body)
Respond(r, code, body) ==
    sent' = [sent EXCEPT ![r] = Append(@, [status |-> code, body |-> body])]

\* askQuestion with the branches run one after the other: only queryGemini
\* is called before the first suspension.
askQuestionGeminiFirst(r, q) ==
    /\ pc[r] = "idle"
    /\ reqBody' = [reqBody EXCEPT ![r] = q]
    /\ IF IsInvalidQuestion(q)
       THEN /\ Respond(r, 400, formatErrorResponse(
                   NewError("Question is required and must be a non-empty string")))
            /\ pc' = [pc EXCEPT ![r] = "rejected"]
            /\ UNCHANGED <<question, promise, startTime, invocations, heap,
                           initialState, asked>>
       ELSE /\ question' = [question EXCEPT ![r] = trim(q.str)]
            /\ initialState' = [initialState EXCEPT ![r] =
                   [question |-> trim(q.str),
                    metadata |-> MetadataAddress(r, "initial")]]
            /\ heap' = [heap EXCEPT ![MetadataAddress(r, "initial")] =
                                        [totalTime |-> 0]]
            /\ promise' = [promise EXCEPT ![r]["gemini"] = Pending]
            /\ startTime' = [startTime EXCEPT ![r]["gemini"] = now]
            /\ invocations' = [invocations EXCEPT ![r]["gemini"] = @ + 1]
            /\ asked' = [asked EXCEPT ![r]["gemini"] = trim(q.str)]
            /\ pc' = [pc EXCEPT ![r] = "awaitFanOut"]
            /\ UNCHANGED sent
    /\ UNCHANGED <<now, remote, settledAt, settleOrder, stateAfterAgents,
                   finalState, prompt, returnedAt>>
    /\ UNCHANGED otherVars

\* askQuestion without the return after the 400 reply: the handler goes on,
\* trim of a non-string throws or the workflow runs, and a second reply is
\* sent.
askQuestionNoReturn(r, q) ==
    /\ pc[r] = "idle"
    /\ reqBody' = [reqBody EXCEPT ![r] = q]
    /\ IF IsInvalidQuestion(q)
       THEN /\ sent' = [sent EXCEPT ![r] =
                   <<[status |-> 400, body |-> formatErrorResponse(NewError(
                         "Question is required and must be a non-empty string"))],
                     [status |-> 500, body |-> formatErrorResponse(NewError(
                         "question.trim is not a function"))]>>]
            /\ pc' = [pc EXCEPT ![r] = "rejected"]
            /\ UNCHANGED <<question, promise, startTime, invocations, heap,
                           initialState, asked>>
       ELSE /\ question' = [question EXCEPT ![r] = trim(q.str)]
            /\ initialState' = [initialState EXCEPT ![r] =
                   [question |-> trim(q.str),
                    metadata |-> MetadataAddress(r, "initial")]]
            /\ heap' = [heap EXCEPT ![MetadataAddress(r, "initial")] =
                                        [totalTime |-> 0]]
            /\ promise' = [promise EXCEPT ![r]["gemini"] = Pending,
                                          ![r]["openai"] = Pending]
            /\ startTime' = [startTime EXCEPT ![r]["gemini"] = now,
                                              ![r]["openai"] = now]
            /\ invocations' = [invocations EXCEPT ![r]["gemini"] = @ + 1,
                                                  ![r]["openai"] = @ + 1]
            /\ asked' = [asked EXCEPT ![r] = [b \in BranchSet |-> trim(q.str)]]
            /\ pc' = [pc EXCEPT ![r] = "awaitFanOut"]
            /\ UNCHANGED sent
    /\ UNCHANGED <<now, remote, settledAt, settleOrder, stateAfterAgents,
                   finalState, prompt, returnedAt>>
    /\ UNCHANGED otherVars

\* askQuestion up to its first suspension: the validation and, for a valid
\* question, executeAgentWorkflow(question.trim()) up to the await of
\* runParallelAgents, both branch calls started.
askQuestion(r, q) ==
    /\ pc[r] = "idle"
    /\ reqBody' = [reqBody EXCEPT ![r] = q]
    /\ IF IsInvalidQuestion(q)
       THEN /\ Respond(r, 400, formatErrorResponse(
                   NewError("Question is required and must be a non-empty string")))
            /\ pc' = [pc EXCEPT ![r] = "rejected"]
            /\ UNCHANGED <<question, promise, startTime, invocations, heap,
                           initialState, asked>>
       ELSE /\ question' = [question EXCEPT ![r] = trim(q.str)]
            /\ initialState' = [initialState EXCEPT ![r] =
                   [question |-> trim(q.str),
                    metadata |-> MetadataAddress(r, "initial")]]
            /\ heap' = [heap EXCEPT ![MetadataAddress(r, "initial")] =
                                        [totalTime |-> 0]]
            /\ promise' = [promise EXCEPT ![r]["gemini"] = Pending,
                                          ![r]["openai"] = Pending]
            /\ startTime' = [startTime EXCEPT ![r]["gemini"] = now,
                                              ![r]["openai"] = now]
            /\ invocations' = [invocations EXCEPT ![r]["gemini"] = @ + 1,
                                                  ![r]["openai"] = @ + 1]
            /\ asked' = [asked EXCEPT ![r] = [b \in BranchSet |-> trim(q.str)]]
            /\ pc' = [pc EXCEPT ![r] = "awaitFanOut"]
            /\ UNCHANGED sent
    /\ UNCHANGED <<now, remote, settledAt, settleOrder, stateAfterAgents,
                   finalState, prompt, returnedAt>>
    /\ UNCHANGED otherVars

\* queryGemini with one retry: a first failure re-issues the invoke.
GeminiSettlesRetry(r, reply) ==
    /\ promise[r]["gemini"] = Pending
    /\ IF ~reply.ok /\ invocations[r]["gemini"] < 2
       THEN /\ invocations' = [invocations EXCEPT ![r]["gemini"] = @ + 1]
            /\ UNCHANGED <<promise, remote, settledAt, settleOrder>>
       ELSE /\ promise' = [promise EXCEPT ![r]["gemini"] =
                              queryGemini(startTime[r]["gemini"], now, reply)]
            /\ remote' = [remote EXCEPT ![r]["gemini"] = reply]
            /\ settledAt' = [settledAt EXCEPT ![r]["gemini"] = now]
            /\ settleOrder' = [settleOrder EXCEPT ![r] = Append(@, "gemini")]
            /\ UNCHANGED invocations
    /\ UNCHANGED <<now, pc, question, startTime, heap,
                   initialState, stateAfterAgents, finalState, prompt,
                   returnedAt, sent, reqBody>>
    /\ UNCHANGED <<asked, otherVars>>

\* geminiClient.invoke settles and queryGemini runs to its return or throw.
GeminiSettles(r, reply) ==
    /\ promise[r]["gemini"] = Pending
    /\ promise' = [promise EXCEPT ![r]["gemini"] =
                      queryGemini(startTime[r]["gemini"], now, reply)]
    /\ remote' = [remote EXCEPT ![r]["gemini"] = reply]
    /\ settledAt' = [settledAt EXCEPT ![r]["gemini"] = now]
    /\ settleOrder' = [settleOrder EXCEPT ![r] = Append(@, "gemini")]
    /\ UNCHANGED <<now, pc, question, startTime, invocations, heap,
                   initialState, stateAfterAgents, finalState, prompt,
                   returnedAt, sent, reqBody>>
    /\ UNCHANGED <<asked, otherVars>>

\* openaiClient.invoke settles and queryOpenAI runs to its return or throw.
OpenAISettles(r, reply) ==
    /\ promise[r]["openai"] = Pending
    /\ promise' = [promise EXCEPT ![r]["openai"] =
                      queryOpenAI(startTime[r]["openai"], now, reply)]
    /\ remote' = [remote EXCEPT ![r]["openai"] = reply]
    /\ settledAt' = [settledAt EXCEPT ![r]["openai"] = now]
    /\ settleOrder' = [settleOrder EXCEPT ![r] = Append(@, "openai")]
    /\ UNCHANGED <<now, pc, question, startTime, invocations, heap,
                   initialState, stateAfterAgents, finalState, prompt,
                   returnedAt, sent, reqBody>>
    /\ UNCHANGED <<asked, otherVars>>

\* The await of runParallelAgents resumes: the results are processed and the
\* state returned to executeAgentWorkflow.  Were the awaited promise to
\* reject, the catch blocks of executeAgentWorkflow and askQuestion would
\* answer 500.
FanOutReturns(r) ==
    LET all == PromiseAllSettled(<<promise[r]["gemini"], promise[r]["openai"]>>)
        res == runParallelAgents(initialState[r], all.value, heap)
    IN  /\ pc[r] = "awaitFanOut"
        /\ all.status /= "pending"
        /\ returnedAt' = [returnedAt EXCEPT ![r] = now]
        /\ IF all.status = "fulfilled"
           THEN /\ stateAfterAgents' = [stateAfterAgents EXCEPT ![r] = res.state]
                /\ heap' = res.heap
                /\ pc' = [pc EXCEPT ![r] = "afterAgents"]
                /\ UNCHANGED sent
           ELSE /\ Respond(r, 500, formatErrorResponse(
                                      executeAgentWorkflowCatch(all.reason)))
                /\ pc' = [pc EXCEPT ![r] = "failed"]
                /\ UNCHANGED <<stateAfterAgents, heap>>
        /\ UNCHANGED <<now, question, promise, startTime, remote, settledAt,
                       settleOrder, invocations, initialState, finalState,
                       prompt, reqBody>>
        /\ UNCHANGED <<asked, otherVars>>

\* runClaudeSynthesis up to the await inside synthesizeResponses: the prompt
\* is built and claudeClient.invoke called.
SynthesisStarts(r) ==
    /\ pc[r] = "afterAgents"
    /\ pc' = [pc EXCEPT ![r] = "awaitSynthesis"]
    /\ prompt' = [prompt EXCEPT ![r] =
                     buildSynthesisPrompt(SynthesisInput(stateAfterAgents[r]))]
    /\ promise' = [promise EXCEPT ![r]["claude"] = Pending]
    /\ startTime' = [startTime EXCEPT ![r]["claude"] = now]
    /\ invocations' = [invocations EXCEPT ![r]["claude"] = @ + 1]
    /\ UNCHANGED <<now, question, remote, settledAt, settleOrder, heap,
                   initialState, stateAfterAgents, finalState, returnedAt, sent,
                   reqBody>>
    /\ UNCHANGED <<asked, otherVars>>

\* claudeClient.invoke settles: synthesizeResponses returns or throws,
\* runClaudeSynthesis and executeAgentWorkflow return or rethrow, and
\* askQuestion sends the response.
\* The continuation with a catch block that answers 200.
ClaudeSettlesErrorIn200(r, reply) ==
    LET p == synthesizeResponses(startTime[r]["claude"], now, reply)
        res == runClaudeSynthesis(stateAfterAgents[r], p.value,
                                  MetadataAddress(r, "final"), heap)
    IN  /\ pc[r] = "awaitSynthesis"
        /\ promise[r]["claude"] = Pending
        /\ promise' = [promise EXCEPT ![r]["claude"] = p]
        /\ remote' = [remote EXCEPT ![r]["claude"] = reply]
        /\ settledAt' = [settledAt EXCEPT ![r]["claude"] = now]
        /\ IF p.status = "fulfilled"
           THEN /\ finalState' = [finalState EXCEPT ![r] = res.state]
                /\ heap' = res.heap
                /\ Respond(r, 200, formatSuccessResponse(res.state, res.heap))
                /\ pc' = [pc EXCEPT ![r] = "completed"]
           ELSE /\ Respond(r, 200, formatErrorResponse(
                                      executeAgentWorkflowCatch(p.reason)))
                /\ pc' = [pc EXCEPT ![r] = "failed"]
                /\ UNCHANGED <<finalState, heap>>
        /\ UNCHANGED <<now, question, startTime, settleOrder, invocations,
                       initialState, stateAfterAgents, prompt, returnedAt, reqBody>>
        /\ UNCHANGED <<asked, otherVars>>

ClaudeSettles(r, reply) ==
    LET p == synthesizeResponses(startTime[r]["claude"], now, reply)
        res == runClaudeSynthesis(stateAfterAgents[r], p.value,
                                  MetadataAddress(r, "final"), heap)
    IN  /\ pc[r] = "awaitSynthesis"
        /\ promise[r]["claude"] = Pending
        /\ promise' = [promise EXCEPT ![r]["claude"] = p]
        /\ remote' = [remote EXCEPT ![r]["claude"] = reply]
        /\ settledAt' = [settledAt EXCEPT ![r]["claude"] = now]
        /\ IF p.status = "fulfilled"
           THEN /\ finalState' = [finalState EXCEPT ![r] = res.state]
                /\ heap' = res.heap
                /\ Respond(r, 200, formatSuccessResponse(res.state, res.heap))
                /\ pc' = [pc EXCEPT ![r] = "completed"]
           ELSE /\ Respond(r, 500, formatErrorResponse(
                                      executeAgentWorkflowCatch(p.reason)))
                /\ pc' = [pc EXCEPT ![r] = "failed"]
                /\ UNCHANGED <<finalState, heap>>
        /\ UNCHANGED <<now, question, startTime, settleOrder, invocations,
                       initialState, stateAfterAgents, prompt, returnedAt, reqBody>>
        /\ UNCHANGED <<asked, otherVars>>

Next ==
    \/ Tick
    \/ \E r \in Requests, q \in QuestionValues : askQuestion(r, q)
    \/ \E r \in Requests, reply \in GeminiReplies : GeminiSettles(r, reply)
    \/ \E r \in Requests, reply \in OpenAIReplies : OpenAISettles(r, reply)
    \/ \E r \in Requests : FanOutReturns(r)
    \/ \E r \in Requests : SynthesisStarts(r)
    \/ \E r \in Requests, reply \in ClaudeReplies : ClaudeSettles(r, reply)

Spec == Init /\ [][Next]_vars

\* The last clock value while two requests are in progress.
MaxConcurrentClock == 1

\* Two clients at once.  Each request has inputs of its own, so that a value
\* of one request showing in the other's result can be told apart.
OwnQuestion(r) ==
    IF r = "r1" THEN [type |-> "string", str |-> <<"q", " ", "k">>]
                ELSE [type |-> "string", str |-> <<" ", "q", " ">>]

OwnText(r) == IF r = "r1" THEN "Paris" ELSE "Lyon"

OwnGeminiReplies(r) ==
    {[ok |-> FALSE], [ok |-> TRUE, content |-> OwnText(r)]}

\* The OpenAI call can fail for the first request only.
OwnOpenAIReplies(r) ==
    {[ok |-> TRUE, content |-> <<[text |-> OwnText(r)]>>]}
        \cup (IF r = "r1" THEN {[ok |-> FALSE]} ELSE {})

OwnClaudeText(r) ==
    IF r = "r1"
    THEN <<"REASONING:", "\n", "r", "\n", "\n", "FINAL ANSWER:", "\n", "a">>
    ELSE <<"a", " ", "b">>

\* Synthesis can fail for the second request only.
OwnClaudeReplies(r) ==
    {[ok |-> TRUE, content |-> OwnClaudeText(r)]}
        \cup (IF r = "r2" THEN {[ok |-> FALSE]} ELSE {})

InitConcurrent ==
    /\ InitWith(Requests)
    /\ ParserIdle
    /\ StartupDone
    /\ FrontendIdle

NextConcurrent ==
    \/ now < MaxConcurrentClock /\ Tick
    \/ \E r \in Requests : askQuestion(r, OwnQuestion(r))
    \/ \E r \in Requests : \E reply \in OwnGeminiReplies(r) : GeminiSettles(r, reply)
    \/ \E r \in Requests : \E reply \in OwnOpenAIReplies(r) : OpenAISettles(r, reply)
    \/ \E r \in Requests : FanOutReturns(r)
    \/ \E r \in Requests : SynthesisStarts(r)
    \/ \E r \in Requests : \E reply \in OwnClaudeReplies(r) : ClaudeSettles(r, reply)

SpecConcurrent == InitConcurrent /\ [][NextConcurrent]_vars

\* The variables every step of a handler or of a remote call changes: the
\* position of the handler or the state of a promise.
progressVars == <<pc, promise>>

\* Every pending remote call eventually settles and every resumed
\* continuation eventually runs.
FairSpec ==
    /\ Spec
    /\ \A r \in Requests :
          /\ WF_progressVars(\E q \in QuestionValues : askQuestion(r, q))
          /\ WF_progressVars(\E reply \in GeminiReplies : GeminiSettles(r, reply))
          /\ WF_progressVars(\E reply \in OpenAIReplies : OpenAISettles(r, reply))
          /\ WF_progressVars(FanOutReturns(r))
          /\ WF_progressVars(SynthesisStarts(r))
          /\ WF_progressVars(\E reply \in ClaudeReplies : ClaudeSettles(r, reply))

\* The configuration module is loaded with any environment.
InitStartup ==
    /\ InitWith({})
    /\ ParserIdle
    /\ FrontendIdle
    /\ processEnv \in Environments
    /\ envResult = None

\* export const env = validateEnv()
LoadConfig ==
    /\ envResult = None
    /\ envResult' = validateEnv(processEnv)
    /\ UNCHANGED processEnv
    /\ UNCHANGED <<workflowVars, parserVars, frontendVars>>

NextStartup == LoadConfig

SpecStartup == InitStartup /\ [][NextStartup]_vars

\* --------------------------------------------------------------- frontend
\* The number of handleSubmit calls followed.
MaxSubmits == 3

\* What the user can type into the textarea.
QuestionInputs == {<<" ">>, <<"q">>, <<" ", "k", " ">>}

\* Number.prototype.toString on the clock values in use.
toString(n) == <<"0", "1", "2", "3", "4", "5", "6">>[n + 1]

\* The ChatResponseData of a successful reply.
ResponseData == [question |-> <<"q">>, totalProcessingTime |-> 2]

\* What `await fetch(...)` followed by `await response.json()` can end
\* with: a ChatResponse (success with data, success without data, failure
\* with or without an error text), or a thrown Error or non-Error.
FetchOutcomes ==
    { [threw |-> FALSE, data |-> [success |-> TRUE, data |-> ResponseData]],
      [threw |-> FALSE, data |-> [success |-> TRUE]],
      [threw |-> FALSE, data |-> [success |-> FALSE,
                                  error |-> "Failed to synthesize responses with Claude"]],
      [threw |-> FALSE, data |-> [success |-> FALSE]],
      [threw |-> TRUE, err |-> NewError("Failed to fetch")],
      [threw |-> TRUE, err |-> [isError |-> FALSE]] }

\* onChange of the textarea, which is disabled while loading.
setQuestion(text) ==
    /\ ~loading
    /\ questionInput' = text
    /\ UNCHANGED <<messages, loading, fetches, submits>>
    /\ UNCHANGED <<workflowVars, parserVars, startupVars>>

\* handleSubmit without the test of the question.
handleSubmitBlankAllowed ==
    /\ submits < MaxSubmits
    /\ submits' = submits + 1
    /\ IF loading
       THEN UNCHANGED <<questionInput, messages, loading, fetches>>
       ELSE /\ messages' = Append(messages, [id |-> toString(now),
                                             question |-> trim(questionInput),
                                             timestamp |-> now])
            /\ questionInput' = <<>>
            /\ loading' = TRUE
            /\ fetches' = fetches \cup {[messageId |-> toString(now),
                                         sentAt |-> Len(messages) + 1,
                                         body |-> trim(questionInput)]}
    /\ UNCHANGED <<workflowVars, parserVars, startupVars>>

\* handleSubmit up to its await of fetch: the guard, the new message and the
\* three state updates.
handleSubmit ==
    /\ submits < MaxSubmits
    /\ submits' = submits + 1
    /\ IF trim(questionInput) = <<>> \/ loading
       THEN UNCHANGED <<questionInput, messages, loading, fetches>>
       ELSE /\ messages' = Append(messages, [id |-> toString(now),
                                             question |-> trim(questionInput),
                                             timestamp |-> now])
            /\ questionInput' = <<>>
            /\ loading' = TRUE
            /\ fetches' = fetches \cup {[messageId |-> toString(now),
                                         sentAt |-> Len(messages) + 1,
                                         body |-> trim(questionInput)]}
    /\ UNCHANGED <<workflowVars, parserVars, startupVars>>

\* The update handleSubmit applies to the messages once its request has
\* ended: every message with the id gets the response or the error.
Settle(msgs, messageId, outcome) ==
    [i \in DOMAIN msgs |->
        IF msgs[i].id /= messageId THEN msgs[i]
        ELSE IF outcome.threw
        THEN SetProp(msgs[i], "error",
                     IF outcome.err.isError THEN outcome.err.message
                     ELSE "Network error - unable to reach server")
        ELSE IF outcome.data.success /\ "data" \in DOMAIN outcome.data
        THEN SetProp(msgs[i], "response", outcome.data.data)
        ELSE SetProp(msgs[i], "error", StrOr(outcome.data, "error", "An error occurred"))]

\* The rest of handleSubmit, from the end of its request: try, catch and
\* finally.
FetchSettles(f, outcome) ==
    /\ f \in fetches
    /\ fetches' = fetches \ {f}
    /\ messages' = Settle(messages, f.messageId, outcome)
    /\ loading' = FALSE
    /\ UNCHANGED <<questionInput, submits>>
    /\ UNCHANGED <<workflowVars, parserVars, startupVars>>

InitFrontend ==
    /\ InitWith({})
    /\ ParserIdle
    /\ StartupDone
    /\ FrontendIdle

NextFrontend ==
    \/ Tick
    \/ \E text \in QuestionInputs : setQuestion(text)
    \/ handleSubmit
    \/ \E f \in fetches, outcome \in FetchOutcomes : FetchSettles(f, outcome)

SpecFrontend == InitFrontend /\ [][NextFrontend]_vars

\* parseClaudeResponse called on its own, on any reply.
InitParser ==
    /\ InitWith({})
    /\ parseIn \in Replies
    /\ parseOut = None
    /\ StartupDone
    /\ FrontendIdle

ParseReply ==
    /\ parseOut = None
    /\ parseOut' = parseClaudeResponse(parseIn)
    /\ UNCHANGED parseIn
    /\ UNCHANGED <<workflowVars, startupVars, frontendVars>>

NextParser == ParseReply

SpecParser == InitParser /\ [][NextParser]_vars

\* ================================================================ claims
\* Property names of a branch in the AgentState.
ResponseKey(b) == IF b = "gemini" THEN "geminiResponse" ELSE "openaiResponse"
ErrorKey(b) == IF b = "gemini" THEN "geminiError" ELSE "openaiError"
TimeKey(b) == IF b = "gemini" THEN "geminiTime" ELSE "openaiTime"

\* The branches of request r whose promise rejected / fulfilled.
Failed(r) == {b \in BranchSet : promise[r][b].status = "rejected"}
Succeeded(r) == {b \in BranchSet : promise[r][b].status = "fulfilled"}

\* The body of the response of request r.
Body(r) == sent[r][1].body

\* C1: runParallelAgents never returns before both branch calls have
\* settled: whenever it has returned (or thrown), both branch promises are
\* settled, each settled no later than the return, and each branch service
\* was invoked exactly once (none skipped, none cancelled).
C1_FanOutWaitsForBoth ==
    \A r \in Requests :
        returnedAt[r] /= NoTime =>
            \A b \in BranchSet :
                /\ IsSettled(promise[r][b])
                /\ settledAt[r][b] /= NoTime
                /\ settledAt[r][b] <= returnedAt[r]
                /\ invocations[r][b] = 1

\* Gemini failed first, OpenAI settled strictly later, and the fan-out has
\* returned.
C1_Witness ==
    /\ returnedAt["r1"] /= NoTime
    /\ promise["r1"]["gemini"].status = "rejected"
    /\ settleOrder["r1"] = <<"gemini", "openai">>
    /\ settledAt["r1"]["gemini"] < settledAt["r1"]["openai"]

\* C2: in the state returned by runParallelAgents each branch's slot holds
\* exactly the outcome of that branch's own call (text and time when it
\* fulfilled, message when it rejected), whichever branch settled first.
C2_SlotIdentity ==
    \A r \in Requests :
        stateAfterAgents[r] /= None =>
            \A b \in BranchSet :
                LET st == stateAfterAgents[r]
                    p == promise[r][b]
                IN  /\ p.status = "fulfilled" =>
                          /\ ResponseKey(b) \in DOMAIN st
                          /\ st[ResponseKey(b)] = p.value.response
                          /\ ErrorKey(b) \notin DOMAIN st
                          /\ TimeKey(b) \in DOMAIN heap[st.metadata]
                          /\ heap[st.metadata][TimeKey(b)] = p.value.time
                    /\ p.status = "rejected" =>
                          /\ ErrorKey(b) \in DOMAIN st
                          /\ st[ErrorKey(b)] = p.reason.message
                          /\ ResponseKey(b) \notin DOMAIN st
                          /\ TimeKey(b) \notin DOMAIN heap[st.metadata]

\* OpenAI settled first and failed, Gemini settled second with a text, and
\* the fan-out has returned.
C2_Witness ==
    /\ stateAfterAgents["r1"] /= None
    /\ settleOrder["r1"] = <<"openai", "gemini">>
    /\ promise["r1"]["openai"].status = "rejected"
    /\ promise["r1"]["gemini"].status = "fulfilled"
    /\ stateAfterAgents["r1"]["geminiResponse"] = "Paris"

\* C3: the synthesis call has started only if both branch outcomes are
\* known: no state has claudeClient.invoke called while a branch promise is
\* unsettled.
C3_SynthesisAfterBarrier ==
    \A r \in Requests :
        (promise[r]["claude"].status /= "none" \/ invocations[r]["claude"] > 0
            \/ prompt[r] /= <<>>) =>
            \A b \in BranchSet : IsSettled(promise[r][b])

\* The synthesis call is in flight after a fan-out whose branches settled
\* at different times.
C3_Witness ==
    /\ promise["r1"]["claude"] = Pending
    /\ settledAt["r1"]["openai"] < settledAt["r1"]["gemini"]
    /\ startTime["r1"]["claude"] >= settledAt["r1"]["gemini"]

\* C4: the fan-out cannot fail: once both branches have settled and the
\* await has resumed, runParallelAgents has returned a state (the workflow
\* has not failed at the fan-out), and every branch failure is in that state
\* as a non-empty error message.
C4_FanOutCannotFail ==
    \A r \in Requests :
        /\ returnedAt[r] /= NoTime =>
              /\ stateAfterAgents[r] /= None
              /\ \A b \in Failed(r) :
                    /\ ErrorKey(b) \in DOMAIN stateAfterAgents[r]
                    /\ stateAfterAgents[r][ErrorKey(b)] /= ""
        /\ pc[r] = "failed" => promise[r]["claude"].status = "rejected"

\* Both branches failed and the fan-out returned a state.
C4_Witness ==
    /\ Failed("r1") = BranchSet
    /\ stateAfterAgents["r1"] /= None
    /\ pc["r1"] = "afterAgents"

\* The text the remote service of branch b returned to request r.
ReturnedText(r, b) ==
    IF b = "gemini" THEN remote[r][b].content ELSE remote[r][b].content[1].text

\* The synthesis remote call of request r has succeeded / has failed.
ClaudeSucceeded(r) == remote[r]["claude"] /= None /\ remote[r]["claude"].ok
ClaudeFailed(r) == remote[r]["claude"] /= None /\ ~remote[r]["claude"].ok

\* C5: when exactly one branch fails and synthesis succeeds, the request is
\* answered once, 200 with success=true; the failing branch carries its
\* error and an empty response, the succeeding branch carries the text its
\* call returned and no error.
C5_OneBranchFails ==
    \A r \in Requests :
        (Cardinality(Failed(r)) = 1 /\ Cardinality(Succeeded(r)) = 1
            /\ ClaudeSucceeded(r)) =>
            /\ pc[r] = "completed"
            /\ Len(sent[r]) = 1
            /\ sent[r][1].status = 200
            /\ Body(r).success = TRUE
            /\ \A b \in Failed(r) :
                  /\ "error" \in DOMAIN Body(r).data.agents[b]
                  /\ Body(r).data.agents[b].error = promise[r][b].reason.message
                  /\ Body(r).data.agents[b].error /= ""
                  /\ Body(r).data.agents[b].response = ""
            /\ \A b \in Succeeded(r) :
                  /\ Body(r).data.agents[b].response = ReturnedText(r, b)
                  /\ "error" \notin DOMAIN Body(r).data.agents[b]

\* A completed request whose OpenAI branch failed and whose Gemini branch
\* returned a text.
C5_Witness ==
    /\ pc["r1"] = "completed"
    /\ Failed("r1") = {"openai"}
    /\ Body("r1").data.agents["gemini"].response = "Lyon"

\* The sections of the prompt of request r of the given kind.
Sections(r, kind) ==
    {i \in DOMAIN prompt[r] : prompt[r][i].kind = kind}

\* C6: when both branches fail, the workflow does not end without invoking
\* synthesis: once it is past the fan-out the synthesis service has been
\* invoked once with a prompt that carries two failure markers, one per
\* branch, and no branch text; and when the synthesis call succeeds the
\* response is 200 with success=true.
C6_BothBranchesFail ==
    \A r \in Requests :
        (Failed(r) = BranchSet /\ pc[r] \in {"awaitSynthesis", "completed", "failed"}) =>
            /\ invocations[r]["claude"] = 1
            /\ Cardinality(Sections(r, "error")) = 2
            /\ {prompt[r][i].agent : i \in Sections(r, "error")} = {"Gemini", "OpenAI"}
            /\ \A i \in Sections(r, "error") : prompt[r][i].message /= ""
            /\ Sections(r, "response") = {}
            /\ ClaudeSucceeded(r) =>
                  /\ Len(sent[r]) = 1
                  /\ sent[r][1].status = 200
                  /\ Body(r).success = TRUE

\* Both branches failed, synthesis succeeded, the request completed.
C6_Witness ==
    /\ Failed("r1") = BranchSet
    /\ ClaudeSucceeded("r1")
    /\ pc["r1"] = "completed"
    /\ Body("r1").success = TRUE

\* C7: when the synthesis remote call fails the workflow is in the terminal
\* failed state and the one response sent is 500 with success=false and no
\* data: no branch text and no timing is returned, whatever the branches did.
C7_SynthesisFailureIsFatal ==
    \A r \in Requests :
        ClaudeFailed(r) =>
            /\ pc[r] = "failed"
            /\ finalState[r] = None
            /\ Len(sent[r]) = 1
            /\ sent[r][1].status = 500
            /\ Body(r).success = FALSE
            /\ "data" \notin DOMAIN Body(r)
            /\ DOMAIN Body(r) \subseteq {"success", "error", "details"}

\* Both branches succeeded and synthesis failed.
C7_Witness ==
    /\ Succeeded("r1") = BranchSet
    /\ ClaudeFailed("r1")
    /\ Len(sent["r1"]) = 1

\* The time between the start and the settlement of a call of request r.
Elapsed(r, s) == settledAt[r][s] - startTime[r][s]

\* C8: when both branches and synthesis succeed, totalProcessingTime is
\* exactly the sum of the three elapsed times, each counted once.
C8_TotalIsSumOfThree ==
    \A r \in Requests :
        (Succeeded(r) = BranchSet /\ ClaudeSucceeded(r)) =>
            /\ Body(r).data.totalProcessingTime =
                   Elapsed(r, "gemini") + Elapsed(r, "openai") + Elapsed(r, "claude")
            /\ Body(r).data.totalProcessingTime =
                   promise[r]["gemini"].value.time + promise[r]["openai"].value.time
                       + promise[r]["claude"].value.time

\* A completed request whose two branches took different, non-zero times
\* and whose synthesis took time as well.
C8_Witness ==
    /\ pc["r1"] = "completed"
    /\ Succeeded("r1") = BranchSet
    /\ Elapsed("r1", "gemini") > 0
    /\ Elapsed("r1", "openai") > Elapsed("r1", "gemini")
    /\ Elapsed("r1", "claude") > 0

\* C9: for a branch whose remote call fails after d milliseconds, the
\* processingTime reported for that branch in the response is d.
C9_ElapsedRecordedOnFailure ==
    \A r \in Requests : \A b \in BranchSet :
        (pc[r] = "completed" /\ remote[r][b] = [ok |-> FALSE]) =>
            Body(r).data.agents[b].processingTime = Elapsed(r, b)

\* C10 as stated: in every successful response the error is present iff the
\* branch failed, a succeeded branch carries its returned text and no error,
\* and a branch never has both a populated response and an error, nor neither.
C10_ResponseXorError ==
    \A r \in Requests : \A b \in BranchSet :
        pc[r] = "completed" =>
            LET a == Body(r).data.agents[b] IN
            /\ "error" \in DOMAIN a <=> b \in Failed(r)
            /\ b \in Succeeded(r) =>
                  a.response = ReturnedText(r, b) /\ "error" \notin DOMAIN a
            /\ ~(a.response /= "" /\ "error" \in DOMAIN a)
            /\ ~(a.response = "" /\ "error" \notin DOMAIN a)

\* C10 amended: as stated, except that a branch has neither a populated
\* response nor an error exactly when its call succeeded with the empty text.
C10_ResponseXorErrorUnlessEmpty ==
    \A r \in Requests : \A b \in BranchSet :
        pc[r] = "completed" =>
            LET a == Body(r).data.agents[b] IN
            /\ "error" \in DOMAIN a <=> b \in Failed(r)
            /\ "error" \in DOMAIN a => a.error /= ""
            /\ b \in Succeeded(r) =>
                  a.response = ReturnedText(r, b) /\ "error" \notin DOMAIN a
            /\ ~(a.response /= "" /\ "error" \in DOMAIN a)
            /\ (a.response = "" /\ "error" \notin DOMAIN a) <=>
                  (b \in Succeeded(r) /\ ReturnedText(r, b) = "")

\* A successful response in which Gemini succeeded with the empty text and
\* OpenAI failed.
C10_Witness ==
    /\ pc["r1"] = "completed"
    /\ promise["r1"]["gemini"].status = "fulfilled"
    /\ promise["r1"]["gemini"].value.response = ""
    /\ Failed("r1") = {"openai"}
    /\ "error" \in DOMAIN Body("r1").data.agents["openai"]

\* The name of branch b in the prompt.
AgentName(b) == IF b = "gemini" THEN "Gemini" ELSE "OpenAI"

\* The sections of the prompt of request r that are about branch b.
BranchSections(r, b) ==
    {i \in DOMAIN prompt[r] :
        /\ prompt[r][i].kind \in {"response", "error"}
        /\ prompt[r][i].agent = AgentName(b)}

\* C11: the prompt carries the question and exactly one section per branch:
\* the branch's text when it succeeded (the empty text included), the
\* [ERROR] marker with the failure message when it failed.
C11_PromptHasEveryBranch ==
    \A r \in Requests :
        prompt[r] /= <<>> =>
            /\ Cardinality(Sections(r, "question")) = 1
            /\ \A i \in Sections(r, "question") : prompt[r][i].text = question[r]
            /\ \A b \in BranchSet :
                  /\ Cardinality(BranchSections(r, b)) = 1
                  /\ \A i \in BranchSections(r, b) :
                        IF b \in Succeeded(r)
                        THEN /\ prompt[r][i].kind = "response"
                             /\ prompt[r][i].text = promise[r][b].value.response
                        ELSE /\ prompt[r][i].kind = "error"
                             /\ prompt[r][i].message = promise[r][b].reason.message

\* The question value q is missing, not a string, or blank.
MissingOrBlank(q) ==
    \/ q.type /= "string"
    \/ \A i \in DOMAIN q.str : q.str[i] \in Whitespace

\* C12: a request whose question is missing, not a string or blank is
\* answered 400 with the validation error and no remote service is invoked
\* for it: no branch call and no synthesis call is ever started.
C12_InvalidRejectedBeforeCore ==
    \A r \in Requests :
        (reqBody[r] /= None /\ MissingOrBlank(reqBody[r])) =>
            /\ pc[r] = "rejected"
            /\ Len(sent[r]) = 1
            /\ sent[r][1].status = 400
            /\ Body(r).success = FALSE
            /\ Body(r).error = "Question is required and must be a non-empty string"
            /\ \A s \in Services :
                  invocations[r][s] = 0 /\ promise[r][s].status = "none"

\* A whitespace-only question has been rejected.
C12_Witness ==
    /\ reqBody["r1"] = [type |-> "string", str |-> <<" ", "\n">>]
    /\ pc["r1"] = "rejected"
    /\ Len(sent["r1"]) = 1

\* C13: a response with success=false comes only from a validation failure
\* or a synthesis failure; a valid question whose synthesis succeeded is
\* answered success=true, each failed branch showing only as the error field
\* of its entry.
C13_TopLevelFailureCauses ==
    \A r \in Requests :
        /\ (Len(sent[r]) > 0 /\ ~Body(r).success) =>
              (MissingOrBlank(reqBody[r]) \/ ClaudeFailed(r))
        /\ (reqBody[r] /= None /\ ~MissingOrBlank(reqBody[r]) /\ ClaudeSucceeded(r)) =>
              /\ Len(sent[r]) = 1
              /\ Body(r).success
              /\ "error" \notin DOMAIN Body(r)
              /\ \A b \in BranchSet :
                    "error" \in DOMAIN Body(r).data.agents[b] <=> b \in Failed(r)

\* Both branches failed, yet the response says success=true.
C13_Witness ==
    /\ Failed("r1") = BranchSet
    /\ Len(sent["r1"]) = 1
    /\ Body("r1").success
    /\ "error" \in DOMAIN Body("r1").data.agents["gemini"]
    /\ "error" \in DOMAIN Body("r1").data.agents["openai"]

\* The first reasoning marker of reply s, the first final-answer marker after
\* it, and the first final-answer marker of s (0 when there is none).
FirstR(s) == IndexOf(s, "REASONING:", 1)
FirstFAfterR(s) == IF FirstR(s) = 0 THEN 0 ELSE IndexOf(s, "FINAL ANSWER:", FirstR(s) + 1)
FirstF(s) == IndexOf(s, "FINAL ANSWER:", 1)

\* The text between the two markers and the text after the final-answer
\* marker that follows the reasoning marker, both trimmed.
Between(s) == trim(SubSeq(s, FirstR(s) + 1, FirstFAfterR(s) - 1))
AfterF(s) == trim(SubSeq(s, FirstFAfterR(s) + 1, Len(s)))

\* The text after the first final-answer marker of s, trimmed.
AfterFirstF(s) == trim(SubSeq(s, FirstF(s) + 1, Len(s)))

\* C14 as stated: on a reply with the reasoning marker followed later by the
\* final-answer marker, reasoning is the trimmed text between the markers
\* and finalAnswer the trimmed text after the final-answer marker.
C14_ParseBothMarkers ==
    (parseOut /= None /\ FirstFAfterR(parseIn) /= 0) =>
        /\ parseOut.reasoning = Between(parseIn)
        /\ parseOut.finalAnswer = AfterF(parseIn)

\* C14 amended: reasoning is the trimmed text between the first reasoning
\* marker and the first final-answer marker after it unless that text is
\* blank (then the placeholder); finalAnswer is the trimmed text after the
\* first final-answer marker of the reply unless that text is blank (then
\* the whole reply, trimmed).
C14_ParseBothMarkersNonBlank ==
    (parseOut /= None /\ FirstFAfterR(parseIn) /= 0) =>
        /\ parseOut.reasoning =
              IF Between(parseIn) /= <<>> THEN Between(parseIn)
              ELSE NoReasoningProvided
        /\ parseOut.finalAnswer =
              IF AfterFirstF(parseIn) /= <<>> THEN AfterFirstF(parseIn)
              ELSE trim(parseIn)

\* A well-formed reply has been parsed into its two sections.
C14_Witness ==
    /\ parseIn = <<"REASONING:", "a", "FINAL ANSWER:", "b">>
    /\ parseOut = [reasoning |-> <<"a">>, finalAnswer |-> <<"b">>]

\* C15 as stated: without the reasoning marker the reasoning is the
\* placeholder; without the final-answer marker the final answer is the
\* entire raw reply; each fallback is taken exactly when its marker is absent.
C15_FallbackPerMarker ==
    parseOut /= None =>
        /\ FirstR(parseIn) = 0 => parseOut.reasoning = NoReasoningProvided
        /\ FirstF(parseIn) = 0 => parseOut.finalAnswer = parseIn
        /\ parseOut.reasoning = NoReasoningProvided => FirstR(parseIn) = 0
        /\ parseOut.finalAnswer = trim(parseIn) => FirstF(parseIn) = 0

\* The section the first reasoning marker of s introduces, trimmed: up to
\* the next final-answer marker or the end.
ReasoningSection(s) ==
    trim(SubSeq(s, FirstR(s) + 1,
                IF FirstFAfterR(s) = 0 THEN Len(s) ELSE FirstFAfterR(s) - 1))

\* C15 amended: the fallbacks are the placeholder and the whole reply
\* trimmed; the fallback of a marker is taken exactly when the marker is
\* absent or the section it introduces is blank.
C15_FallbackPerMarkerOrBlank ==
    parseOut /= None =>
        /\ FirstR(parseIn) = 0 => parseOut.reasoning = NoReasoningProvided
        /\ FirstF(parseIn) = 0 => parseOut.finalAnswer = trim(parseIn)
        /\ parseOut.reasoning = NoReasoningProvided <=>
              (FirstR(parseIn) = 0 \/ ReasoningSection(parseIn) = <<>>)
        /\ parseOut.finalAnswer = trim(parseIn) <=>
              (FirstF(parseIn) = 0 \/ AfterFirstF(parseIn) = <<>>)

\* A reply without markers has been parsed: placeholder reasoning, the
\* trimmed reply as the final answer.
C15_Witness ==
    /\ parseIn = <<" ", "a", "b">>
    /\ parseOut = [reasoning |-> NoReasoningProvided, finalAnswer |-> <<"a", "b">>]

\* Branch b of request r has been started.
Started(r, b) == promise[r][b].status /= "none"

\* C16: the two branch calls are launched together: whenever one has been
\* started so has the other, whatever state the first is in, both with the
\* same start time and one invocation each.
C16_BothLaunchedTogether ==
    \A r \in Requests :
        /\ Started(r, "gemini") <=> Started(r, "openai")
        /\ Started(r, "gemini") =>
              /\ startTime[r]["openai"] = startTime[r]["gemini"]
              /\ invocations[r]["gemini"] = 1
              /\ invocations[r]["openai"] = 1

\* Both remote calls are in flight at once, some time after they started.
C16_Witness ==
    /\ promise["r1"]["gemini"] = Pending
    /\ promise["r1"]["openai"] = Pending
    /\ now > startTime["r1"]["gemini"]

\* C17: no service is invoked twice for one request, a settled call
\* (failed or not) was invoked exactly once, and a finished workflow
\* invoked each branch service exactly once and synthesis at most once.
C17_NoRetry ==
    \A r \in Requests :
        /\ \A s \in Services :
              /\ invocations[r][s] <= 1
              /\ remote[r][s] /= None => invocations[r][s] = 1
        /\ pc[r] \in {"completed", "failed"} =>
              invocations[r]["gemini"] = 1 /\ invocations[r]["openai"] = 1

\* A finished request whose Gemini call failed and whose synthesis failed.
C17_Witness ==
    /\ pc["r1"] = "failed"
    /\ remote["r1"]["gemini"] = [ok |-> FALSE]
    /\ remote["r1"]["claude"] = [ok |-> FALSE]
    /\ invocations["r1"] = [gemini |-> 1, openai |-> 1, claude |-> 1]

\* C18: after a synthesis failure the response's error is the message of
\* the error synthesizeResponses threw and its details that error's stack.
C18_SynthesisErrorUnchanged ==
    \A r \in Requests :
        ClaudeFailed(r) =>
            /\ promise[r]["claude"].status = "rejected"
            /\ Len(sent[r]) = 1
            /\ Body(r).error = promise[r]["claude"].reason.message
            /\ Body(r).details = promise[r]["claude"].reason.stack

\* A synthesis failure has been answered with the AgentError's message.
C18_Witness ==
    /\ ClaudeFailed("r1")
    /\ Len(sent["r1"]) = 1
    /\ Body("r1").error = "Failed to synthesize responses with Claude"

\* The processingTime the response of request r reports for service s.
ReportedTime(r, s) == Body(r).data.agents[s].processingTime

\* C20: in every successful response totalProcessingTime is the sum of
\* the three processingTime values of the same response, whichever
\* branches succeeded or failed.
C20_TotalIsSumOfReported ==
    \A r \in Requests :
        pc[r] = "completed" =>
            Body(r).data.totalProcessingTime =
                ReportedTime(r, "gemini") + ReportedTime(r, "openai")
                    + ReportedTime(r, "claude")

\* A successful response after a failed Gemini branch, with non-zero
\* times reported for OpenAI and for synthesis.
C20_Witness ==
    /\ pc["r1"] = "completed"
    /\ Failed("r1") = {"gemini"}
    /\ ReportedTime("r1", "openai") > 0
    /\ ReportedTime("r1", "claude") > 0
    /\ Body("r1").data.totalProcessingTime > ReportedTime("r1", "claude")

\* What request r's own calls determine for branch b of its response.
OwnBranchResult(r, b) ==
    IF remote[r][b].ok
    THEN [response |-> ReturnedText(r, b), processingTime |-> Elapsed(r, b)]
    ELSE [response |-> "", processingTime |-> 0,
          error |-> promise[r][b].reason.message]

\* C19: with two requests in progress at once and their completions
\* interleaved in any order, every successful response is made of the
\* request's own values only: its own trimmed question, the texts or
\* errors and the times of its own branch calls, the parse of its own
\* synthesis reply with that call's time, and the total of its own times;
\* the prompt sent to synthesis carries the request's own question.
C19_NoCrossRequestSharing ==
    \A r \in Requests :
        pc[r] = "completed" =>
            LET data == Body(r).data
                own == parseClaudeResponse(remote[r]["claude"].content)
            IN  /\ data.question = trim(reqBody[r].str)
                /\ \A b \in BranchSet : data.agents[b] = OwnBranchResult(r, b)
                /\ data.agents.claude =
                       [finalAnswer |-> own.finalAnswer,
                        reasoning |-> own.reasoning,
                        processingTime |-> Elapsed(r, "claude")]
                /\ data.totalProcessingTime =
                       OwnBranchResult(r, "gemini").processingTime
                         + OwnBranchResult(r, "openai").processingTime
                         + Elapsed(r, "claude")
                /\ \A i \in Sections(r, "question") :
                       prompt[r][i].text = trim(reqBody[r].str)

\* Both requests were answered successfully, each had started before the
\* other's synthesis settled, and their Gemini calls took different times.
C19_Witness ==
    /\ pc["r1"] = "completed"
    /\ pc["r2"] = "completed"
    /\ startTime["r2"]["gemini"] < settledAt["r1"]["claude"]
    /\ startTime["r1"]["gemini"] < settledAt["r2"]["claude"]
    /\ Succeeded("r1") = BranchSet
    /\ Succeeded("r2") = BranchSet
    /\ Elapsed("r1", "gemini") /= Elapsed("r2", "gemini")

\* C21: the status of the reply agrees with the outcome.  A reply is 400,
\* 200 or 500; it is 400 with success=false exactly when the question
\* fails validation, 200 with success=true and data exactly when the
\* workflow returned its final state, and 500 with success=false and no
\* data exactly when the workflow threw; and each outcome has its reply.
C21_StatusAgreesWithOutcome ==
    \A r \in Requests :
        /\ Len(sent[r]) > 0 =>
              LET status == sent[r][1].status IN
              /\ status \in {200, 400, 500}
              /\ status = 400 <=> MissingOrBlank(reqBody[r])
              /\ status = 200 <=> finalState[r] /= None
              /\ status = 500 <=> ClaudeFailed(r)
              /\ status = 200 => Body(r).success /\ "data" \in DOMAIN Body(r)
              /\ status /= 200 => ~Body(r).success /\ "data" \notin DOMAIN Body(r)
        /\ (reqBody[r] /= None /\ MissingOrBlank(reqBody[r])) => Len(sent[r]) > 0
        /\ (ClaudeSucceeded(r) \/ ClaudeFailed(r)) => Len(sent[r]) > 0

\* A workflow that threw after one branch had failed was answered 500.
C21_Witness ==
    /\ Len(sent["r1"]) = 1
    /\ sent["r1"][1].status = 500
    /\ Failed("r1") = {"openai"}
    /\ ClaudeFailed("r1")

\* The handler of request r has run to its end.
HandlerDone(r) == pc[r] \in {"rejected", "completed", "failed"}

\* C27: askQuestion sends exactly one reply per request on every path:
\* none while the handler is still running, one once it has ended (after a
\* validation rejection, a workflow success or a workflow failure), and
\* never a second one.
C27_ExactlyOneResponse ==
    \A r \in Requests :
        /\ Len(sent[r]) <= 1
        /\ HandlerDone(r) <=> Len(sent[r]) = 1
        /\ (reqBody[r] /= None /\ MissingOrBlank(reqBody[r])) => HandlerDone(r)
        /\ (ClaudeSucceeded(r) \/ ClaudeFailed(r)) => HandlerDone(r)

\* A non-string question has been rejected with one reply.
C27_Witness ==
    /\ reqBody["r1"] = [type |-> "number", num |-> 7]
    /\ HandlerDone("r1")
    /\ Len(sent["r1"]) = 1
    /\ sent["r1"][1].status = 400

\* C23: when every remote call eventually settles, every request is
\* eventually answered, and a fan-out that was started always returns,
\* whichever branches fail and in whichever order they settle.
C23_EveryRequestAnswered ==
    \A r \in Requests :
        /\ (pc[r] = "idle") ~> (Len(sent[r]) = 1)
        /\ (pc[r] = "awaitFanOut") ~> (returnedAt[r] /= NoTime)

\* Both branches failed, OpenAI first, the fan-out returned and the request
\* was answered.
C23_Witness ==
    /\ remote["r1"]["gemini"] = [ok |-> FALSE]
    /\ remote["r1"]["openai"] = [ok |-> FALSE]
    /\ settleOrder["r1"] = <<"openai", "gemini">>
    /\ returnedAt["r1"] /= NoTime
    /\ Len(sent["r1"]) = 1

\* The variables documented as required.
DocumentedRequired == {"GEMINI_API_KEY", "OPENAI_API_KEY", "ANTHROPIC_API_KEY"}

\* C22: validateEnv throws whenever one of the three documented keys is
\* missing and returns only when all three are present.
C22_AllDocumentedKeysRequired ==
    envResult /= None =>
        (envResult.threw <=>
            \E name \in DocumentedRequired : IsMissing(processEnv, name))

\* The fields of a state other than its metadata reference.
OwnFields(state) == DOMAIN state \ {"metadata"}

\* C24: the synthesis stage does not touch the branch outcomes.  The final
\* state has the fields of the state after the fan-out with the same
\* values (question, each branch's response or error) plus finalAnswer and
\* reasoning; its metadata has the branch times of the fan-out unchanged
\* plus claudeTime and totalTime; and the branch entries of the response
\* are those the state after the fan-out determines.
C24_SynthesisKeepsBranchOutcomes ==
    \A r \in Requests :
        finalState[r] /= None =>
            LET after == stateAfterAgents[r]
                final == finalState[r]
                m0 == heap[after.metadata]
                m1 == heap[final.metadata]
            IN  /\ OwnFields(final) = OwnFields(after) \cup {"finalAnswer", "reasoning"}
                /\ \A f \in OwnFields(after) : final[f] = after[f]
                /\ DOMAIN m1 = DOMAIN m0 \cup {"claudeTime", "totalTime"}
                /\ \A b \in BranchSet :
                      /\ TimeKey(b) \in DOMAIN m1 <=> b \in Succeeded(r)
                      /\ b \in Succeeded(r) =>
                            /\ m1[TimeKey(b)] = promise[r][b].value.time
                            /\ m0[TimeKey(b)] = promise[r][b].value.time
                      /\ Body(r).data.agents[b] =
                            AgentResponse(after, m0, ResponseKey(b), ErrorKey(b),
                                          TimeKey(b))
                /\ Body(r).data.question = after.question

\* Synthesis succeeded after Gemini had failed and OpenAI had taken some
\* time, and the final state carries that time.
C24_Witness ==
    /\ finalState["r1"] /= None
    /\ Failed("r1") = {"gemini"}
    /\ promise["r1"]["openai"].value.time > 0
    /\ heap[finalState["r1"].metadata].openaiTime = promise["r1"]["openai"].value.time
    /\ "geminiError" \in DOMAIN finalState["r1"]

\* The tokens of s from its first to its last non-whitespace token.
Stripped(s) ==
    LET solid == {i \in DOMAIN s : s[i] \notin Whitespace} IN
    IF solid = {} THEN <<>>
    ELSE SubSeq(s, CHOOSE i \in solid : \A j \in solid : i <= j,
                   CHOOSE i \in solid : \A j \in solid : j <= i)

\* C25: for a valid request the question is fixed at the boundary: the
\* argument of the workflow, of both branch calls, the question of every
\* workflow state, the question section of the synthesis prompt and the
\* question field of the successful response are all the request's
\* question without its surrounding whitespace, which is not empty.
C25_QuestionFixedAtBoundary ==
    \A r \in Requests :
        (reqBody[r] /= None /\ ~MissingOrBlank(reqBody[r])) =>
            LET q == Stripped(reqBody[r].str) IN
            /\ q /= <<>>
            /\ question[r] = q
            /\ \A b \in BranchSet : asked[r][b] = q
            /\ \A st \in {initialState[r], stateAfterAgents[r], finalState[r]} :
                  st /= None => st.question = q
            /\ prompt[r] /= <<>> =>
                  /\ Sections(r, "question") /= {}
                  /\ \A i \in Sections(r, "question") : prompt[r][i].text = q
            /\ pc[r] = "completed" => Body(r).data.question = q

\* A question sent with surrounding whitespace has been answered.
C25_Witness ==
    /\ reqBody["r1"] = [type |-> "string", str |-> <<" ", "q", " ">>]
    /\ pc["r1"] = "completed"
    /\ asked["r1"]["openai"] = <<"q">>
    /\ Body("r1").data.question = <<"q">>

\* Reply s is empty or whitespace only.
Blank(s) == \A i \in DOMAIN s : s[i] \in Whitespace

\* C26 as stated: the reasoning is never empty, the final answer is empty
\* only for a blank reply, and a marker followed by an empty section gives
\* the fallback of an absent marker: the placeholder reasoning, the whole
\* raw reply as the final answer.
C26_AlwaysSurfacesRaw ==
    parseOut /= None =>
        /\ parseOut.reasoning /= <<>>
        /\ parseOut.finalAnswer = <<>> => Blank(parseIn)
        /\ (FirstR(parseIn) /= 0 /\ ReasoningSection(parseIn) = <<>>) =>
              parseOut.reasoning = NoReasoningProvided
        /\ (FirstF(parseIn) /= 0 /\ AfterFirstF(parseIn) = <<>>) =>
              parseOut.finalAnswer = parseIn

\* C26 amended: the same, the fallback final answer being the whole reply
\* with its surrounding whitespace removed.
C26_AlwaysSurfacesTrimmed ==
    parseOut /= None =>
        /\ parseOut.reasoning /= <<>>
        /\ parseOut.finalAnswer = <<>> => Blank(parseIn)
        /\ (FirstR(parseIn) /= 0 /\ ReasoningSection(parseIn) = <<>>) =>
              parseOut.reasoning = NoReasoningProvided
        /\ (FirstF(parseIn) /= 0 /\ AfterFirstF(parseIn) = <<>>) =>
              parseOut.finalAnswer = Stripped(parseIn)

\* Both markers are present, each followed by an empty section, after a
\* leading blank: placeholder reasoning, the trimmed reply as final answer.
C26_Witness ==
    /\ parseIn = <<" ", "REASONING:", " ", "FINAL ANSWER:">>
    /\ parseOut = [reasoning |-> NoReasoningProvided,
                   finalAnswer |-> <<"REASONING:", " ", "FINAL ANSWER:">>]

\* C30: the failure message recorded for a failed branch is a non-empty
\* string, the message of the error the branch rejected with or
\* 'Unknown error'; so the prompt has an error section for the branch and
\* the response an error field, while a succeeded branch has neither.
C30_FailureMessageNonEmpty ==
    \A r \in Requests : \A b \in BranchSet :
        stateAfterAgents[r] /= None =>
            LET st == stateAfterAgents[r] IN
            /\ b \in Failed(r) =>
                  /\ ErrorKey(b) \in DOMAIN st
                  /\ st[ErrorKey(b)] /= ""
                  /\ st[ErrorKey(b)] \in {promise[r][b].reason.message, "Unknown error"}
                  /\ prompt[r] /= <<>> =>
                        \E i \in BranchSections(r, b) : prompt[r][i].kind = "error"
                  /\ pc[r] = "completed" =>
                        /\ "error" \in DOMAIN Body(r).data.agents[b]
                        /\ Body(r).data.agents[b].error /= ""
            /\ b \in Succeeded(r) =>
                  /\ ErrorKey(b) \notin DOMAIN st
                  /\ prompt[r] /= <<>> =>
                        \A i \in BranchSections(r, b) : prompt[r][i].kind /= "error"
                  /\ pc[r] = "completed" =>
                        "error" \notin DOMAIN Body(r).data.agents[b]

\* Gemini failed, OpenAI succeeded with the empty text, and the response
\* tells them apart.
C30_Witness ==
    /\ pc["r1"] = "completed"
    /\ Failed("r1") = {"gemini"}
    /\ promise["r1"]["openai"].value.response = ""
    /\ Body("r1").data.agents["gemini"].error = "Failed to get response from Gemini"
    /\ "error" \notin DOMAIN Body("r1").data.agents["openai"]

\* The request of message i is in flight.
InFlight(i) == \E f \in fetches : f.sentAt = i

\* Message m shows a response / an error / the pending block.
HasResponse(m) == "response" \in DOMAIN m
HasError(m) == "error" \in DOMAIN m /\ TruthyStr(m.error)
IsPending(m) == ~HasResponse(m) /\ ~HasError(m)

\* C28: loading is true exactly while a request is in flight; a message
\* whose request has ended holds exactly one of response and error; and a
\* message is pending only while its request is in flight.
C28_SettledMessageHasOneResult ==
    /\ loading <=> fetches /= {}
    /\ \A i \in DOMAIN messages :
          /\ ~InFlight(i) => HasResponse(messages[i]) /= HasError(messages[i])
          /\ IsPending(messages[i]) => InFlight(i)
          /\ ~(HasResponse(messages[i]) /\ HasError(messages[i]))

\* C29: a call of handleSubmit with a blank question or while loading
\* changes nothing: no message is appended, no fetch is issued, loading
\* and the text are as before; and at most one request is in flight.
C29_BlankOrLoadingIsNoOp ==
    /\ [](Cardinality(fetches) <= 1)
    /\ [][(submits' = submits + 1 /\ (Blank(questionInput) \/ loading)) =>
             /\ messages' = messages
             /\ fetches' = fetches
             /\ loading' = loading
             /\ questionInput' = questionInput]_vars

\* handleSubmit was called more often than it sent a message, and a
\* request is in flight.
C29_Witness ==
    /\ submits > Len(messages)
    /\ loading
    /\ Cardinality(fetches) = 1
    /\ Len(messages) = 2

\* C31: runParallelAgents leaves the state it was given unchanged: once
\* it has returned, initialState still has its two fields, the question
\* and the metadata, and that metadata still holds totalTime 0 only, with
\* geminiTime and openaiTime unset.
C31_InputStateUnchanged ==
    \A r \in Requests :
        stateAfterAgents[r] /= None =>
            /\ DOMAIN initialState[r] = {"question", "metadata"}
            /\ initialState[r].question = question[r]
            /\ heap[initialState[r].metadata] = [totalTime |-> 0]
            /\ "geminiTime" \notin DOMAIN heap[initialState[r].metadata]
            /\ "openaiTime" \notin DOMAIN heap[initialState[r].metadata]

====
